---- MODULE Spec2Model ----
(***************************************************************************)
(* Model of frontend/lib/src/util/UriUtil.ts.                              *)
(*                                                                         *)
(* A JavaScript string is modelled as a sequence of symbols.  In paths a   *)
(* symbol is one character ("/", "a", "b"); in origins and in built URIs   *)
(* a symbol is either a delimiter ("://", ":", ".", "*", "/") or a word    *)
(* that holds no delimiter ("https", "localhost", "8501", ...).            *)
(***************************************************************************)
EXTENDS Integers, Sequences, FiniteSets, TLC

\* location: window.location, as a URL record (UriUtil.ts line 32).
\* isDev:    IS_DEV_ENV (line 37).
\* nativeURLPattern: whether the platform has its own URLPattern; the
\*           polyfill imported at line 19 defines URLPattern only when
\*           the platform has none.
\* op:       the function last called, "none" before the first call.
\* args:     the arguments of that call.
\* ret:      the value it returned.
VARIABLES location, isDev, nativeURLPattern, op, args, ret

vars == <<location, isDev, nativeURLPattern, op, args, ret>>

(***************************************************************************)
(* Bounds.                                                                 *)
(***************************************************************************)
MaxPathLen == 3

PathChars == {"/", "a", "b"}

SeqsUpTo(S, n) == UNION {[1..k -> S] : k \in 0..n}

PathStrings == SeqsUpTo(PathChars, MaxPathLen)

(***************************************************************************)
(* String helpers.                                                         *)
(***************************************************************************)
Last(s) == s[Len(s)]

Front(s) == SubSeq(s, 1, Len(s) - 1)

StartsWith(s, prefix) ==
    /\ Len(s) >= Len(prefix)
    /\ SubSeq(s, 1, Len(prefix)) = prefix

\* s.replace(FINAL_SLASH_RE, ""): /\/+$/ removes the whole final run of "/".
RECURSIVE ReplaceFinalSlash(_)
ReplaceFinalSlash(s) ==
    IF s # <<>> /\ Last(s) = "/" THEN ReplaceFinalSlash(Front(s)) ELSE s

\* s.replace(INITIAL_SLASH_RE, ""): /^\/+/ removes the whole initial run of "/".
RECURSIVE ReplaceInitialSlash(_)
ReplaceInitialSlash(s) ==
    IF s # <<>> /\ Head(s) = "/" THEN ReplaceInitialSlash(Tail(s)) ELSE s

\* A plausible slip: the emptiness test on the base path is lost, so the
\* two paths are always joined with a slash.
makePathNoBaseTest(basePath, subPath) ==
    LET base == ReplaceInitialSlash(ReplaceFinalSlash(basePath))
        sub  == ReplaceInitialSlash(ReplaceFinalSlash(subPath))
    IN  base \o <<"/">> \o sub

\* A plausible slip: only the sub-path is trimmed.
makePathRawBase(basePath, subPath) ==
    LET sub == ReplaceInitialSlash(ReplaceFinalSlash(subPath))
    IN  IF Len(basePath) = 0 THEN sub ELSE basePath \o <<"/">> \o sub

makePath(basePath, subPath) ==
    LET base == ReplaceInitialSlash(ReplaceFinalSlash(basePath))
        sub  == ReplaceInitialSlash(ReplaceFinalSlash(subPath))
    IN  IF Len(base) = 0 THEN sub ELSE base \o <<"/">> \o sub

(***************************************************************************)
(* The path specification: makePath applied to every pair of bounded       *)
(* strings, and then applied again to its own result with an empty         *)
(* sub-path.                                                               *)
(***************************************************************************)
NoLocation == [protocol |-> "http:", hostname |-> "h", port |-> "", pathname |-> <<"/">>]

InitPath ==
    /\ location = NoLocation
    /\ isDev = FALSE
    /\ nativeURLPattern = FALSE
    /\ op = "none"
    /\ args = <<>>
    /\ ret = <<>>

MakePath ==
    /\ op = "none"
    /\ \E a \in PathStrings, b \in PathStrings :
          /\ args' = <<a, b>>
          /\ ret' = makePath(a, b)
    /\ op' = "makePath"
    /\ UNCHANGED <<location, isDev, nativeURLPattern>>

\* makePath(makePath(a, b), ""): args keeps a, b and the first result.
MakePathAgain ==
    /\ op = "makePath"
    /\ args' = <<args[1], args[2], ret>>
    /\ ret' = makePath(ret, <<>>)
    /\ op' = "makePathAgain"
    /\ UNCHANGED <<location, isDev, nativeURLPattern>>

NextPath == MakePath \/ MakePathAgain

SpecPath == InitPath /\ [][NextPath]_vars

(***************************************************************************)
(* The URL object (WHATWG URL), for the http: and https: schemes.  A URL   *)
(* is a record of protocol, hostname, port and pathname; port is "" when   *)
(* the URL holds no port.                                                  *)
(***************************************************************************)
MaxPagePathLen == 4

MaxSubPathLen == 2

Protocols == {"http:", "https:"}

Hostnames == {"the_host"}

Ports == {"", "80", "443", "3000"}

Scheme(protocol) == IF protocol = "https:" THEN "https" ELSE "http"

Protocol(scheme) == IF scheme = "https" THEN "https:" ELSE "http:"

DefaultPort(protocol) == IF protocol = "https:" THEN "443" ELSE "80"

\* A URL never holds the default port of its scheme, and the pathname of an
\* http(s) URL always starts with "/".
PagePathnames == {<<"/">> \o p : p \in SeqsUpTo(PathChars, MaxPagePathLen)}

Locations ==
    {u \in [protocol : Protocols, hostname : Hostnames, port : Ports,
            pathname : PagePathnames] : u.port # DefaultPort(u.protocol)}

SubPaths == SeqsUpTo(PathChars, MaxSubPathLen)

\* The serialization of a URL (window.location.href, and the string that
\* new URL(url) reads from a URL argument).
Href(url) ==
    <<Scheme(url.protocol), "://", url.hostname>>
        \o (IF url.port = "" THEN <<>> ELSE <<":", url.port>>)
        \o url.pathname

\* new URL(href) for a serialized http(s) URL.
NewURL(href) ==
    LET hasPort == Len(href) >= 5 /\ href[4] = ":"
    IN  [protocol |-> Protocol(href[1]),
         hostname |-> href[3],
         port     |-> IF hasPort THEN href[5] ELSE "",
         pathname |-> SubSeq(href, IF hasPort THEN 6 ELSE 4, Len(href))]

\* url.port = value, value a valid port number: the URL's port becomes null
\* (read back as "") when value is the default port of the URL's scheme.
SetPort(url, value) ==
    [url EXCEPT !.port = IF value = DefaultPort(url.protocol) THEN "" ELSE value]

\* url.pathname = value on an http(s) URL: the path is parsed again from
\* value, and its serialization starts with "/" whether or not value does.
SetPathname(url, value) ==
    [url EXCEPT !.pathname =
        IF value # <<>> /\ Head(value) = "/" THEN value ELSE <<"/">> \o value]

WEBSOCKET_PORT_DEV == "8501"

isHttps == StartsWith(Href(location), <<"https", "://">>)

\* A plausible slip: the trailing slashes of the page path are kept.
getWindowBaseUriPartsKeepsFinalSlash ==
    LET currentUrl == NewURL(Href(location))
        withPort ==
            IF isDev
            THEN SetPort(currentUrl, WEBSOCKET_PORT_DEV)
            ELSE IF currentUrl.port = ""
                 THEN SetPort(currentUrl, IF isHttps THEN "443" ELSE "80")
                 ELSE currentUrl
    IN  SetPathname(withPort, ReplaceInitialSlash(withPort.pathname))

getWindowBaseUriParts ==
    LET currentUrl == NewURL(Href(location))
        withPort ==
            IF isDev
            THEN SetPort(currentUrl, WEBSOCKET_PORT_DEV)
            ELSE IF currentUrl.port = ""
                 THEN SetPort(currentUrl, IF isHttps THEN "443" ELSE "80")
                 ELSE currentUrl
    IN  SetPathname(withPort,
            ReplaceInitialSlash(ReplaceFinalSlash(withPort.pathname)))

\* s.split("/"): the pieces of s between its slashes; one piece, s itself,
\* when s holds no slash.
RECURSIVE Split(_)
Split(s) ==
    IF \A i \in 1..Len(s) : s[i] # "/"
    THEN <<s>>
    ELSE LET i == CHOOSE k \in 1..Len(s) :
                      s[k] = "/" /\ \A m \in 1..(k - 1) : s[m] # "/"
         IN  <<SubSeq(s, 1, i - 1)>> \o Split(SubSeq(s, i + 1, Len(s)))

\* parts.join("/").
RECURSIVE Join(_)
Join(parts) ==
    IF Len(parts) = 0 THEN <<>>
    ELSE IF Len(parts) = 1 THEN parts[1]
    ELSE Join(Front(parts)) \o <<"/">> \o Last(parts)

\* lodash take(array, n).
Take(array, n) == SubSeq(array, 1, IF Len(array) < n THEN Len(array) ELSE n)

\* A plausible slip: the loop stops when one part is left.
RECURSIVE PossibleBaseUrisLoopStopsEarly(_, _)
PossibleBaseUrisLoopStopsEarly(baseUriParts, parts) ==
    IF Len(parts) > 1
    THEN <<SetPathname(NewURL(Href(baseUriParts)), Join(parts))>>
            \o PossibleBaseUrisLoopStopsEarly(baseUriParts, Front(parts))
    ELSE <<>>

\* The while loop of getPossibleBaseUris: one candidate per iteration, then
\* parts.pop().
RECURSIVE PossibleBaseUrisLoop(_, _)
PossibleBaseUrisLoop(baseUriParts, parts) ==
    IF Len(parts) > 0
    THEN <<SetPathname(NewURL(Href(baseUriParts)), Join(parts))>>
            \o PossibleBaseUrisLoop(baseUriParts, Front(parts))
    ELSE <<>>

\* A plausible slip: no early return for the root path.
getPossibleBaseUrisNoRootCase ==
    LET baseUriParts == getWindowBaseUriParts
    IN  Take(PossibleBaseUrisLoop(baseUriParts, Split(baseUriParts.pathname)), 2)

\* A plausible slip: the candidates are not cut to two.
getPossibleBaseUrisNoTake ==
    LET baseUriParts == getWindowBaseUriParts
    IN  IF baseUriParts.pathname = <<"/">>
        THEN <<baseUriParts>>
        ELSE PossibleBaseUrisLoop(baseUriParts, Split(baseUriParts.pathname))

getPossibleBaseUris ==
    LET baseUriParts == getWindowBaseUriParts
    IN  IF baseUriParts.pathname = <<"/">>
        THEN <<baseUriParts>>
        ELSE Take(PossibleBaseUrisLoop(baseUriParts, Split(baseUriParts.pathname)), 2)

\* The port in a template literal: "" adds nothing to the string.
PortText(port) == IF port = "" THEN <<>> ELSE <<port>>

\* A plausible slip: the two schemes swapped.
buildWsUriSwapped(url, path) ==
    <<IF isHttps THEN "ws" ELSE "wss", "://", url.hostname, ":">>
        \o PortText(url.port) \o <<"/">> \o makePath(url.pathname, path)

buildWsUri(url, path) ==
    LET protocol == IF isHttps THEN "wss" ELSE "ws"
        fullPath == makePath(url.pathname, path)
    IN  <<protocol, "://", url.hostname, ":">> \o PortText(url.port)
            \o <<"/">> \o fullPath

buildHttpUri(url, path) ==
    LET protocol == IF isHttps THEN "https" ELSE "http"
        fullPath == makePath(url.pathname, path)
    IN  <<protocol, "://", url.hostname, ":">> \o PortText(url.port)
            \o <<"/">> \o fullPath

(***************************************************************************)
(* The URI specification: the page is at some location, in development     *)
(* mode or not; the base URI or the candidates are computed, and URIs are  *)
(* built from a candidate.                                                 *)
(***************************************************************************)
InitUri ==
    /\ location \in Locations
    /\ isDev \in BOOLEAN
    /\ nativeURLPattern = FALSE
    /\ op = "none"
    /\ args = <<>>
    /\ ret = <<>>

GetWindowBaseUriParts ==
    /\ op = "none"
    /\ op' = "getWindowBaseUriParts"
    /\ ret' = getWindowBaseUriParts
    /\ UNCHANGED <<location, isDev, nativeURLPattern, args>>

GetPossibleBaseUris ==
    /\ op = "none"
    /\ op' = "getPossibleBaseUris"
    /\ ret' = getPossibleBaseUris
    /\ UNCHANGED <<location, isDev, nativeURLPattern, args>>

BuildWsUri ==
    /\ op = "getPossibleBaseUris"
    /\ \E i \in 1..Len(ret), path \in SubPaths :
          /\ args' = <<ret[i], path>>
          /\ ret' = buildWsUri(ret[i], path)
    /\ op' = "buildWsUri"
    /\ UNCHANGED <<location, isDev, nativeURLPattern>>

BuildHttpUri ==
    /\ op = "getPossibleBaseUris"
    /\ \E i \in 1..Len(ret), path \in SubPaths :
          /\ args' = <<ret[i], path>>
          /\ ret' = buildHttpUri(ret[i], path)
    /\ op' = "buildHttpUri"
    /\ UNCHANGED <<location, isDev, nativeURLPattern>>

NextUri ==
    \/ GetWindowBaseUriParts
    \/ GetPossibleBaseUris
    \/ BuildWsUri
    \/ BuildHttpUri

SpecUri == InitUri /\ [][NextUri]_vars

(***************************************************************************)
(* Origins and origin patterns.  An origin string is a scheme, "://", a    *)
(* host of labels joined by ".", and optionally ":" and a port; a pattern  *)
(* string has the same shape and may hold "*"; a string without "://" has  *)
(* no scheme.  A component of a URL or of a URLPattern is a sequence of    *)
(* symbols, empty for "".  Test origins carry no path, query or fragment,  *)
(* so only protocol, hostname and port decide a match.                     *)
(***************************************************************************)
MaxLabels == 2

Labels == {"localhost", "example", "com"}

OriginPorts == {<<>>, <<"80">>, <<"443">>, <<"3000">>}

\* label.label...label
RECURSIVE Dotted(_)
Dotted(labels) ==
    IF Len(labels) = 1 THEN <<labels[1]>>
    ELSE Dotted(Front(labels)) \o <<".", Last(labels)>>

HostsOver(labels) ==
    {Dotted(ls) : ls \in UNION {[1..k -> labels] : k \in 1..MaxLabels}}

WithPort(port) == IF port = <<>> THEN <<>> ELSE <<":">> \o port

TestOrigins ==
    {<<sch, "://">> \o h \o WithPort(po) :
        sch \in {"http", "https"}, h \in HostsOver(Labels), po \in OriginPorts}
    \cup HostsOver(Labels)

AllowedOriginPatterns ==
    {<<sch, "://">> \o h \o WithPort(po) :
        sch \in {"http", "https", "*"}, h \in HostsOver(Labels \cup {"*"}),
        po \in OriginPorts \cup {<<"*">>}}
    \cup HostsOver(Labels \cup {"*"})

Threw == [threw |-> TRUE]

\* The position of the ":" that starts the port, 0 when there is none.
PortColon(s) ==
    IF Len(s) >= 2 /\ s[Len(s) - 1] = ":" THEN Len(s) - 1 ELSE 0

HostOf(s) ==
    SubSeq(s, 3, IF PortColon(s) = 0 THEN Len(s) ELSE PortColon(s) - 1)

PortOf(s) == IF PortColon(s) = 0 THEN <<>> ELSE <<Last(s)>>

\* A port that is the default port of a special scheme is dropped.
CanonicalPort(protocol, port) ==
    IF \/ protocol = <<"https">> /\ port = <<"443">>
       \/ protocol = <<"http">> /\ port = <<"80">>
    THEN <<>> ELSE port

\* The port of a pattern.  The polyfill drops the default port of the
\* pattern's own protocol; a native URLPattern (Chrome) drops that port and
\* also 443 whatever the protocol of the pattern is.
CanonicalPatternPort(protocol, port) ==
    IF nativeURLPattern /\ port = <<"443">>
    THEN <<>>
    ELSE CanonicalPort(protocol, port)

\* new URLPattern(input), input a string: throws when the string has no
\* protocol; a string with a hostname and no port has the port "".
NewURLPattern(input) ==
    IF Len(input) < 3 \/ input[2] # "://"
    THEN Threw
    ELSE [threw    |-> FALSE,
          protocol |-> <<input[1]>>,
          hostname |-> HostOf(input),
          port     |-> CanonicalPatternPort(<<input[1]>>, PortOf(input))]

\* new URLPattern({ protocol, hostname }): a component that is not given is
\* the wildcard.
NewPortLessURLPattern(protocol, hostname) ==
    [threw |-> FALSE, protocol |-> protocol, hostname |-> hostname,
     port |-> <<"*">>]

\* new URL(testOrigin): throws when the string has no scheme.
NewTestURL(input) ==
    IF Len(input) < 3 \/ input[2] # "://"
    THEN Threw
    ELSE [threw    |-> FALSE,
          protocol |-> <<input[1]>>,
          hostname |-> HostOf(input),
          port     |-> CanonicalPort(<<input[1]>>, PortOf(input))]

\* The match of one component: "*" stands for any run of symbols, every
\* other symbol of the pattern for itself.
RECURSIVE ComponentMatches(_, _)
ComponentMatches(pattern, value) ==
    IF pattern = <<>> THEN value = <<>>
    ELSE IF Head(pattern) = "*"
         THEN \/ ComponentMatches(Tail(pattern), value)
              \/ value # <<>> /\ ComponentMatches(pattern, Tail(value))
         ELSE /\ value # <<>>
              /\ Head(value) = Head(pattern)
              /\ ComponentMatches(Tail(pattern), Tail(value))

\* pattern.test(url): every component of the URL matches.
Test(pattern, url) ==
    /\ ComponentMatches(pattern.protocol, url.protocol)
    /\ ComponentMatches(pattern.hostname, url.hostname)
    /\ ComponentMatches(pattern.port, url.port)

Return(value) == [threw |-> FALSE, value |-> value]

\* A plausible slip: no try/catch around the constructors.
isValidOriginNoCatch(allowedOriginPattern, testOrigin) ==
    LET allowedUrlPattern == NewURLPattern(allowedOriginPattern)
        testUrl == NewTestURL(testOrigin)
    IN  IF allowedUrlPattern.threw \/ testUrl.threw
        THEN Threw
        ELSE LET allowedPortLessPattern ==
                     NewPortLessURLPattern(allowedUrlPattern.protocol,
                                           allowedUrlPattern.hostname)
             IN  IF /\ testUrl.hostname = <<"localhost">>
                    /\ Test(allowedPortLessPattern, testUrl)
                 THEN Return(TRUE)
                 ELSE Return(Test(allowedUrlPattern, testUrl))

\* A plausible slip: the port-less pattern is tried for every hostname.
isValidOriginAnyHostname(allowedOriginPattern, testOrigin) ==
    LET allowedUrlPattern == NewURLPattern(allowedOriginPattern)
        testUrl == NewTestURL(testOrigin)
    IN  IF allowedUrlPattern.threw \/ testUrl.threw
        THEN Return(FALSE)
        ELSE LET allowedPortLessPattern ==
                     NewPortLessURLPattern(allowedUrlPattern.protocol,
                                           allowedUrlPattern.hostname)
             IN  IF Test(allowedPortLessPattern, testUrl)
                 THEN Return(TRUE)
                 ELSE Return(Test(allowedUrlPattern, testUrl))

\* The result is a record: threw tells whether the call raised, value is
\* the boolean it returned.
isValidOrigin(allowedOriginPattern, testOrigin) ==
    LET allowedUrlPattern == NewURLPattern(allowedOriginPattern)
        testUrl == NewTestURL(testOrigin)
    IN  IF allowedUrlPattern.threw \/ testUrl.threw
        THEN Return(FALSE)
        ELSE LET allowedPortLessPattern ==
                     NewPortLessURLPattern(allowedUrlPattern.protocol,
                                           allowedUrlPattern.hostname)
             IN  IF /\ testUrl.hostname = <<"localhost">>
                    /\ Test(allowedPortLessPattern, testUrl)
                 THEN Return(TRUE)
                 ELSE Return(Test(allowedUrlPattern, testUrl))

(***************************************************************************)
(* The origin specification: isValidOrigin applied to every pattern and    *)
(* every test origin.                                                      *)
(***************************************************************************)
InitOrigin ==
    /\ location = NoLocation
    /\ isDev = FALSE
    /\ nativeURLPattern \in BOOLEAN
    /\ op = "none"
    /\ args = <<>>
    /\ ret = <<>>

IsValidOrigin ==
    /\ op = "none"
    /\ \E allowedOriginPattern \in AllowedOriginPatterns, testOrigin \in TestOrigins :
          /\ args' = <<allowedOriginPattern, testOrigin>>
          /\ ret' = isValidOrigin(allowedOriginPattern, testOrigin)
    /\ op' = "isValidOrigin"
    /\ UNCHANGED <<location, isDev, nativeURLPattern>>

NextOrigin == IsValidOrigin

SpecOrigin == InitOrigin /\ [][NextOrigin]_vars

(***************************************************************************)
(* Properties of makePath (SpecPath).                                      *)
(***************************************************************************)
NoSlash(s) == \A i \in 1..Len(s) : s[i] # "/"

\* C6, as stated: makePath(makePath(a, b), "") equals makePath(a, b).
C6_Idempotent ==
    op = "makePathAgain" => ret = args[3]

\* C6, amended: makePath(makePath(a, b), "") equals makePath(a, b) when
\* makePath(a, b) is empty or ends with a slash, and otherwise equals
\* makePath(a, b) followed by one slash.
C6_AppendsSlash ==
    op = "makePathAgain" =>
        ret = IF args[3] = <<>> \/ Last(args[3]) = "/"
              THEN args[3]
              ELSE args[3] \o <<"/">>

C6_Witness ==
    /\ op = "makePathAgain"
    /\ args[1] = <<"a">>
    /\ args[2] = <<"b">>
    /\ args[3] = <<"a", "/", "b">>
    /\ ret = <<"a", "/", "b", "/">>

\* C7, as stated: for a and b without slashes, the empty string included,
\* makePath(a, b) is a, then "/", then b.
C7_SlashFreeJoin ==
    (op = "makePath" /\ NoSlash(args[1]) /\ NoSlash(args[2])) =>
        ret = args[1] \o <<"/">> \o args[2]

\* C7, amended: for a and b without slashes, makePath(a, b) is a, then "/",
\* then b when a is not empty, and is b alone when a is empty.
C7_SlashFreeJoinOrSub ==
    (op = "makePath" /\ NoSlash(args[1]) /\ NoSlash(args[2])) =>
        ret = IF args[1] = <<>> THEN args[2]
              ELSE args[1] \o <<"/">> \o args[2]

C7_Witness ==
    /\ op = "makePath"
    /\ args[1] = <<>>
    /\ args[2] = <<"a", "b">>
    /\ ret = <<"a", "b">>

(***************************************************************************)
(* Properties of the base URI and of the candidates (SpecUri).             *)
(***************************************************************************)
\* The page path with its leading and trailing slashes removed.
NormalizedPagePath == ReplaceInitialSlash(ReplaceFinalSlash(location.pathname))

\* Its segments: none for the root path.
PageSegments ==
    IF NormalizedPagePath = <<>> THEN <<>> ELSE Split(NormalizedPagePath)

\* The path a URL carries, without the slash that starts every pathname.
PathOf(url) == Tail(url.pathname)

NoLeadingSlash(s) == s = <<>> \/ Head(s) # "/"

NoTrailingSlash(s) == s = <<>> \/ Last(s) # "/"

\* C3: getPossibleBaseUris returns one or two candidates, the longer path
\* first; for a page path of two or more segments it returns exactly two,
\* the first with the full path and the second with the path less its last
\* segment.
C3_AtMostTwoMostSpecificFirst ==
    op = "getPossibleBaseUris" =>
        /\ Len(ret) \in {1, 2}
        /\ Len(ret) = 2 => Len(ret[1].pathname) > Len(ret[2].pathname)
        /\ Len(PageSegments) >= 2 =>
              /\ Len(ret) = 2
              /\ PathOf(ret[1]) = NormalizedPagePath
              /\ PathOf(ret[2]) = Join(Front(PageSegments))

C3_Witness ==
    /\ op = "getPossibleBaseUris"
    /\ location.pathname = <<"/", "a", "/", "b">>
    /\ Len(ret) = 2
    /\ ret[1].pathname = <<"/", "a", "/", "b">>
    /\ ret[2].pathname = <<"/", "a">>

\* C4: for the root page path getPossibleBaseUris returns exactly one
\* candidate, the base URI of getWindowBaseUriParts.
C4_RootSingleCandidate ==
    (op = "getPossibleBaseUris" /\ NormalizedPagePath = <<>>) =>
        ret = <<getWindowBaseUriParts>>

C4_Witness ==
    /\ op = "getPossibleBaseUris"
    /\ location.pathname = <<"/">>
    /\ Len(ret) = 1
    /\ ret[1].pathname = <<"/">>

\* C5, as stated: a page path of exactly one segment yields exactly one
\* candidate.
C5_SingleSegmentOneCandidate ==
    (op = "getPossibleBaseUris" /\ Len(PageSegments) = 1) => Len(ret) = 1

\* C5, amended: a page path of exactly one segment yields exactly two
\* candidates, the base URI with that segment and then the same URI with
\* the root path "/".
C5_SingleSegmentTwoCandidates ==
    (op = "getPossibleBaseUris" /\ Len(PageSegments) = 1) =>
        /\ Len(ret) = 2
        /\ ret[1] = getWindowBaseUriParts
        /\ ret[2] = [getWindowBaseUriParts EXCEPT !.pathname = <<"/">>]

C5_Witness ==
    /\ op = "getPossibleBaseUris"
    /\ location.pathname = <<"/", "a">>
    /\ Len(ret) = 2
    /\ ret[1].pathname = <<"/", "a">>
    /\ ret[2].pathname = <<"/">>

\* C8: buildWsUri(base, path) is scheme://hostname:port/joined with joined
\* the join of base.pathname and path, and scheme wss on an https page and
\* ws otherwise; buildHttpUri is the same with https and http.
C8_BuiltUri ==
    /\ op = "buildWsUri" =>
          ret = <<IF location.protocol = "https:" THEN "wss" ELSE "ws",
                  "://", args[1].hostname, ":">>
                    \o PortText(args[1].port) \o <<"/">>
                    \o makePath(args[1].pathname, args[2])
    /\ op = "buildHttpUri" =>
          ret = <<IF location.protocol = "https:" THEN "https" ELSE "http",
                  "://", args[1].hostname, ":">>
                    \o PortText(args[1].port) \o <<"/">>
                    \o makePath(args[1].pathname, args[2])

C8_Witness ==
    /\ op = "buildWsUri"
    /\ location.protocol = "https:"
    /\ args[1].pathname = <<"/", "a">>
    /\ args[2] = <<"/", "b">>
    /\ ret = <<"wss", "://", "the_host", ":", "3000", "/", "a", "/", "b">>

\* C9, as stated: the base URI always has a non-empty port: the development
\* port in development mode, else the page's explicit port, else 443 on an
\* https page and 80 otherwise.
C9_ExplicitPort ==
    op = "getWindowBaseUriParts" =>
        /\ ret.port # ""
        /\ ret.port = IF isDev THEN WEBSOCKET_PORT_DEV
                      ELSE IF location.port # "" THEN location.port
                      ELSE IF location.protocol = "https:" THEN "443"
                      ELSE "80"

\* C10, as stated: the pathname of the base URI, and of every candidate,
\* has no leading and no trailing slash.
C10_NoLeadingNoTrailingSlash ==
    /\ op = "getWindowBaseUriParts" =>
          NoLeadingSlash(ret.pathname) /\ NoTrailingSlash(ret.pathname)
    /\ op = "getPossibleBaseUris" =>
          \A i \in 1..Len(ret) :
              NoLeadingSlash(ret[i].pathname) /\ NoTrailingSlash(ret[i].pathname)

\* C10, amended: the pathname of the base URI, and of every candidate, is
\* one slash followed by a path with no leading slash; that path has no
\* trailing slash either, except in the second candidate when the segment
\* before the last segment of the page path is empty.
C10_OneLeadingSlash ==
    /\ op = "getWindowBaseUriParts" =>
          /\ Head(ret.pathname) = "/"
          /\ NoLeadingSlash(PathOf(ret))
          /\ NoTrailingSlash(PathOf(ret))
    /\ op = "getPossibleBaseUris" =>
          \A i \in 1..Len(ret) :
              /\ Head(ret[i].pathname) = "/"
              /\ NoLeadingSlash(PathOf(ret[i]))
              /\ NoTrailingSlash(PathOf(ret[i]))
                    \/ (i = 2 /\ PageSegments[Len(PageSegments) - 1] = <<>>)

\* A page path with leading and trailing slashes and an empty segment.
C10_Witness ==
    /\ op = "getPossibleBaseUris"
    /\ location.pathname = <<"/", "a", "/", "/", "b">>
    /\ Len(ret) = 2
    /\ ret[1].pathname = <<"/", "a", "/", "/", "b">>
    /\ ret[2].pathname = <<"/", "a", "/">>

(***************************************************************************)
(* Properties of isValidOrigin (SpecOrigin).                               *)
(***************************************************************************)
HasScheme(s) == Len(s) >= 3 /\ s[2] = "://"

\* C1: isValidOrigin never raises; when the pattern or the test origin
\* cannot be parsed it returns false.
C1_NeverRaises ==
    op = "isValidOrigin" =>
        /\ ret.threw = FALSE
        /\ (~HasScheme(args[1]) \/ ~HasScheme(args[2])) => ret.value = FALSE

C1_Witness ==
    /\ op = "isValidOrigin"
    /\ args[1] = <<"example", ".", "com">>
    /\ args[2] = <<"https", "://", "example", ".", "com">>
    /\ ret = [threw |-> FALSE, value |-> FALSE]

\* The matches the claim speaks of, on the parsed pattern and origin.
FullMatch(p, u) ==
    /\ ComponentMatches(p.protocol, u.protocol)
    /\ ComponentMatches(p.hostname, u.hostname)
    /\ ComponentMatches(p.port, u.port)

ProtocolAndHostnameMatch(p, u) ==
    /\ ComponentMatches(p.protocol, u.protocol)
    /\ ComponentMatches(p.hostname, u.hostname)

\* C2: for a parseable pattern and a parseable test origin, isValidOrigin is
\* true exactly when the origin matches the whole pattern, or its hostname
\* is localhost and its protocol and hostname match the pattern; for a
\* hostname other than localhost the result is the match of the whole
\* pattern.
C2_FullMatchOrLocalhost ==
    (op = "isValidOrigin" /\ HasScheme(args[1]) /\ HasScheme(args[2])) =>
        LET p == NewURLPattern(args[1])
            u == NewTestURL(args[2])
        IN  /\ ret.value =
                  (\/ FullMatch(p, u)
                   \/ u.hostname = <<"localhost">> /\ ProtocolAndHostnameMatch(p, u))
            /\ u.hostname # <<"localhost">> => ret.value = FullMatch(p, u)

\* A localhost origin accepted on a port the pattern does not allow.
C2_Witness ==
    /\ op = "isValidOrigin"
    /\ args[1] = <<"https", "://", "localhost">>
    /\ args[2] = <<"https", "://", "localhost", ":", "3000">>
    /\ ret = [threw |-> FALSE, value |-> TRUE]

====
